---- MODULE Spec2Model ----
(***************************************************************************)
(* Model of Erdos-888-Computational.py: the number-theoretic primitives,   *)
(* the admissibility predicate, the scale search, and compute_f_sf (the    *)
(* hypergraph builder followed by the branch-and-bound vertex cover).      *)
(***************************************************************************)
EXTENDS Integers, Sequences, FiniteSets, TLC

\* ---------------------------------------------------------------- bounds
\* largest bound n handed to compute_f_sf
MaxN == 36
\* largest argument handed to core
MaxCoreArg == 12
\* largest bound n and largest kernel value handed to check_fixing_opportunity
MaxFixN == 16
MaxKernel == 15
\* largest size of a set handed to check_admissible
MaxSetSize == 4

\* ------------------------------------------------------------ primitives
RECURSIVE isqrt_search(_, _, _)
\* largest r in lo..hi with r*r <= n (lo*lo <= n < (hi+1)*(hi+1))
isqrt_search(n, lo, hi) ==
    IF lo = hi THEN lo
    ELSE LET mid == (lo + hi + 1) \div 2
         IN  IF mid * mid <= n THEN isqrt_search(n, mid, hi)
                               ELSE isqrt_search(n, lo, mid - 1)

\* math.isqrt: the exact integer square root of n >= 0
isqrt(n) == isqrt_search(n, 0, IF n < 46340 THEN n ELSE 46340)

\* is_square with the comparison of the root loosened
is_square_floor(n) ==
    IF n < 0 THEN FALSE
    ELSE LET root == isqrt(n) IN root * root <= n

is_square(n) ==
    IF n < 0 THEN FALSE
    ELSE LET root == isqrt(n) IN root * root = n

RECURSIVE gcd(_, _)
gcd(a, b) == IF b = 0 THEN a ELSE gcd(b, a % b)

\* core dividing by the gcd once
core_single_gcd(a, b) ==
    LET g == gcd(a, b) IN (a * b) \div g

core(a, b) ==
    LET g == gcd(a, b) IN (a * b) \div (g * g)

SetMin(S) == CHOOSE x \in S : \A y \in S : x <= y

RECURSIVE sorted(_)
\* sorted(S): the elements of a set of integers as an ascending sequence
sorted(S) ==
    IF S = {} THEN << >>
    ELSE LET m == SetMin(S) IN << m >> \o sorted(S \ {m})

\* the set sieve_square_free(n) leaves marked True: j is unmarked by the
\* inner loop of some i in 2..int(n**0.5) when j is a multiple of i*i in sq..n
is_sf(n) ==
    { x \in 1..n : ~ \E i \in 2..isqrt(n) : x >= i * i /\ x % (i * i) = 0 }

sieve_square_free(n) == sorted(is_sf(n))

Range(s) == { s[i] : i \in 1..Len(s) }

\* ------------------------------------------------- hypergraph construction
\* the (core, pair) entries appended for one i, j ascending from i + 1
\* (i and j are 1-based positions in Vs)
PairRow(Vs, i) ==
    [ t \in 1..(Len(Vs) - i) |->
        << core(Vs[i], Vs[i + t]), << Vs[i], Vs[i + t] >> >> ]

RECURSIVE PairRows(_, _, _)
\* the entries appended by the double loop for i in lo..hi, in generation order
PairRows(Vs, lo, hi) ==
    IF lo > hi THEN << >>
    ELSE IF lo = hi THEN PairRow(Vs, lo)
    ELSE LET mid == (lo + hi) \div 2
         IN  PairRows(Vs, lo, mid) \o PairRows(Vs, mid + 1, hi)

\* pair_groups[k]: the pairs with core k, in generation order
GroupOf(entries, k) ==
    LET sel == SelectSeq(entries, LAMBDA en : en[1] = k)
    IN  [ i \in 1..Len(sel) |-> sel[i][2] ]

\* EdgeOfPairs without the test q[0]*q[3] != q[1]*q[2]
EdgeOfPairsNoFilter(p1, p2) ==
    LET vertices == { p1[1], p1[2], p2[1], p2[2] }
    IN  IF Cardinality(vertices) = 4 THEN << sorted(vertices) >> ELSE << >>

\* the edge appended for pairs p1, p2 of one bucket, or nothing
EdgeOfPairs(p1, p2) ==
    LET vertices == { p1[1], p1[2], p2[1], p2[2] }
    IN  IF Cardinality(vertices) = 4
        THEN LET q == sorted(vertices)
             IN  IF q[1] * q[4] # q[2] * q[3] THEN << q >> ELSE << >>
        ELSE << >>

RECURSIVE BucketRow(_, _, _, _)
\* the edges appended for pairs[i] against pairs[j], j in lo..hi
BucketRow(pairs, i, lo, hi) ==
    IF lo > hi THEN << >>
    ELSE IF lo = hi THEN EdgeOfPairs(pairs[i], pairs[lo])
    ELSE LET mid == (lo + hi) \div 2
         IN  BucketRow(pairs, i, lo, mid) \o BucketRow(pairs, i, mid + 1, hi)

RECURSIVE BucketRowsAllPairs(_, _, _)
\* BucketRows with the inner loop starting at 0 instead of i + 1
BucketRowsAllPairs(pairs, lo, hi) ==
    IF lo > hi THEN << >>
    ELSE IF lo = hi THEN BucketRow(pairs, lo, 1, Len(pairs))
    ELSE LET mid == (lo + hi) \div 2
         IN  BucketRowsAllPairs(pairs, lo, mid)
             \o BucketRowsAllPairs(pairs, mid + 1, hi)

RECURSIVE BucketRows(_, _, _)
\* the edges appended for one bucket, i in lo..hi and j in i+1..len(pairs)
BucketRows(pairs, lo, hi) ==
    IF lo > hi THEN << >>
    ELSE IF lo = hi THEN BucketRow(pairs, lo, lo + 1, Len(pairs))
    ELSE LET mid == (lo + hi) \div 2
         IN  BucketRows(pairs, lo, mid) \o BucketRows(pairs, mid + 1, hi)

\* the edges one bucket contributes; a bucket of fewer than 2 pairs is skipped
EdgesOfBucket(pairs) ==
    IF Len(pairs) < 2 THEN << >> ELSE BucketRows(pairs, 1, Len(pairs))

\* entry t is the first with its core: its key is inserted into pair_groups here
IsNewKey(entries, t) == \A u \in 1..(t - 1) : entries[u][1] # entries[t][1]

RECURSIVE EdgesOfKeys(_, _, _)
\* the edges of the buckets whose key is first inserted at a position in
\* lo..hi, buckets taken in insertion order of their keys
EdgesOfKeys(entries, lo, hi) ==
    IF lo > hi THEN << >>
    ELSE IF lo = hi
         THEN IF IsNewKey(entries, lo)
              THEN EdgesOfBucket(GroupOf(entries, entries[lo][1]))
              ELSE << >>
    ELSE LET mid == (lo + hi) \div 2
         IN  EdgesOfKeys(entries, lo, mid) \o EdgesOfKeys(entries, mid + 1, hi)

\* the edge list compute_f_sf builds from the vertex list Vs
BuildEdges(Vs) ==
    LET entries == PairRows(Vs, 1, Len(Vs))
    IN  EdgesOfKeys(entries, 1, Len(entries))

\* deg[v]: the number of entries of es that contain v
Degree(es, v) == Cardinality({ i \in 1..Len(es) : v \in Range(es[i]) })

RECURSIVE InsertByDeg(_, _, _)
\* insert v after every element of s whose degree is >= deg[v]
InsertByDeg(es, s, v) ==
    IF s = << >> THEN << v >>
    ELSE IF Degree(es, Head(s)) >= Degree(es, v)
         THEN << Head(s) >> \o InsertByDeg(es, Tail(s), v)
         ELSE << v >> \o s

RECURSIVE SortByDeg(_, _)
\* sorted(e, key=deg, reverse=True): descending degree, ties in the order of e
SortByDeg(es, e) ==
    IF e = << >> THEN << >>
    ELSE InsertByDeg(es, SortByDeg(es, SubSeq(e, 1, Len(e) - 1)), e[Len(e)])

Covered(e, c) == \E i \in 1..Len(e) : e[i] \in c

\* the 0-based index of the first edge at or after edge_idx that has no
\* vertex in c, or -1 when the scan finds none
FirstUncovered(es, edge_idx, c) ==
    LET cand == { i \in edge_idx..(Len(es) - 1) : ~ Covered(es[i + 1], c) }
    IN  IF cand = {} THEN -1 ELSE SetMin(cand)

\* the prune test with the comparison turned around
PrunedFlipped(c, best) == Cardinality(c) <= Cardinality(best)

\* the prune test at the entry of backtrack
Pruned(c, best) == Cardinality(c) >= Cardinality(best)

\* the recursive call skipping one edge
ChildIdxSkip(i) == i + 2

\* the index handed to the recursive call for the edge at index i
ChildIdx(i) == i + 1

\* the search started from an empty best cover
InitialBestEmpty(Vs) == {}

\* the running best cover the search starts from
InitialBest(Vs) == Range(Vs)

\* --------------------------------------------------------- check_admissible
\* the cross equality with the wrong pairing
CrossEqualSwapped(a, b, c, d) == a * b = c * d

\* the cross equality tested on an ascending quadruple
CrossEqual(a, b, c, d) == a * d = b * c

check_admissible(A) ==
    LET A_sorted == sorted(A)
        L == Len(A_sorted)
    IN  /\ \A i \in 1..L : \A j \in (i + 1)..L :
             \A k \in (j + 1)..L : \A l \in (k + 1)..L :
                LET a == A_sorted[i]
                    b == A_sorted[j]
                    c == A_sorted[k]
                    d == A_sorted[l]
                IN  is_square(a * b * c * d) => CrossEqual(a, b, c, d)
        /\ \A i \in 1..L : \A j \in (i + 1)..L :
             LET x == A_sorted[i]
                 y == A_sorted[j]
             IN  /\ is_square(x * x * x * y) => x * y = x * x
                 /\ is_square(x * y * y * y) => x * y = y * y

\* ------------------------------------------------- check_fixing_opportunity
RECURSIVE max_scale_from(_, _, _)
\* the while loop: s grows while k*s*s <= n; the scale kept is s - 1
max_scale_from(nn, k, s) ==
    IF k * s * s <= nn THEN max_scale_from(nn, k, s + 1) ELSE s - 1

max_scale(nn, k) == max_scale_from(nn, k, 1)

\* A for one combination of scales: k*s*s in the order of kernels
Scaled(kernels, scales) ==
    [ i \in 1..Len(kernels) |-> kernels[i] * scales[i] * scales[i] ]

\* Qualifies without the cross equality of line 88
QualifiesNoCross(kernels, scales) ==
    LET A == Scaled(kernels, scales)
    IN  /\ ~ \A i \in 1..Len(scales) : scales[i] = 1
        /\ Cardinality(Range(A)) = Len(A)
        /\ LET A_sorted == sorted(Range(A))
               prod == A_sorted[1] * A_sorted[2] * A_sorted[3] * A_sorted[4]
           IN  is_square(prod)

\* the combination is not skipped and passes the test of lines 84-88
Qualifies(kernels, scales) ==
    LET A == Scaled(kernels, scales)
    IN  /\ ~ \A i \in 1..Len(scales) : scales[i] = 1
        /\ Cardinality(Range(A)) = Len(A)
        /\ LET A_sorted == sorted(Range(A))
               prod == A_sorted[1] * A_sorted[2] * A_sorted[3] * A_sorted[4]
           IN  /\ is_square(prod)
               /\ A_sorted[1] * A_sorted[4] = A_sorted[2] * A_sorted[3]

\* s comes before t in the order itertools.product enumerates
LexLeq(s, t) ==
    \/ s = t
    \/ \E i \in 1..Len(s) : /\ \A j \in 1..(i - 1) : s[j] = t[j]
                            /\ s[i] < t[i]

\* (True, A) for the first qualifying combination, (False, None) otherwise;
\* kernel_set is a set of 4 values
check_fixing_opportunity(nn, kernel_set) ==
    LET kernels == sorted(kernel_set)
        ms == [ i \in 1..4 |-> max_scale(nn, kernels[i]) ]
        hits == { sc \in (1..ms[1]) \X (1..ms[2]) \X (1..ms[3]) \X (1..ms[4]) :
                    Qualifies(kernels, sc) }
    IN  IF hits = {} THEN << FALSE, << >> >>
        ELSE LET first == CHOOSE sc \in hits : \A t \in hits : LexLeq(sc, t)
             IN  << TRUE, Scaled(kernels, first) >>

\* ------------------------------------------------------------------ state
VARIABLES
    pc,         \* position in the modelled call
    n,          \* the bound
    V,          \* the vertex list
    edges,      \* the edge list
    min_cover,  \* min_cover[0]
    cover,      \* the partial cover shared by the recursion
    stack,      \* frames of backtrack: edge_idx, branching order, position
    f_sf,       \* returned f_sf
    ret_cover,  \* returned cover
    fn,         \* which function the behaviour exercises
    arg,        \* the arguments of a pure call
    result      \* the result of a pure call

vars == << pc, n, V, edges, min_cover, cover, stack, f_sf, ret_cover,
           fn, arg, result >>

Top == stack[Len(stack)]

SetTop(fr) == [ stack EXCEPT ![Len(stack)] = fr ]

\* ------------------------------------------------------------ compute_f_sf
Init ==
    /\ fn = "compute_f_sf"
    /\ pc = "build"
    /\ n \in 1..MaxN
    /\ V = << >>
    /\ edges = << >>
    /\ min_cover = {}
    /\ cover = {}
    /\ stack = << >>
    /\ f_sf = -1
    /\ ret_cover = {}
    /\ arg = << >>
    /\ result = << >>

\* lines 96-116: the vertex list and the edge list
BuildHypergraph ==
    /\ fn = "compute_f_sf" /\ pc = "build"
    /\ V' = sieve_square_free(n)
    /\ edges' = BuildEdges(V')
    /\ pc' = "built"
    /\ UNCHANGED << n, min_cover, cover, stack, f_sf, ret_cover, fn, arg, result >>

\* lines 118-119: no edge, return at once
ReturnNoEdges ==
    /\ fn = "compute_f_sf" /\ pc = "built"
    /\ edges = << >>
    /\ f_sf' = Len(V)
    /\ ret_cover' = {}
    /\ pc' = "done"
    /\ UNCHANGED << n, V, edges, min_cover, cover, stack, fn, arg, result >>

\* lines 122-126 and 149: the trivial cover, then backtrack(0, set())
StartSearch ==
    /\ fn = "compute_f_sf" /\ pc = "built"
    /\ edges # << >>
    /\ min_cover' = InitialBest(V)
    /\ cover' = {}
    /\ stack' = << [edge_idx |-> 0, order |-> << >>, pos |-> 0] >>
    /\ pc' = "enter"
    /\ UNCHANGED << n, V, edges, f_sf, ret_cover, fn, arg, result >>

\* the control transfer of a return from backtrack
ReturnTo(stk) == IF Len(stk) = 1 THEN "finish" ELSE "resume"

Pop(stk) == SubSeq(stk, 1, Len(stk) - 1)

\* lines 129-130: the size prune
BacktrackPrune ==
    /\ fn = "compute_f_sf" /\ pc = "enter"
    /\ Pruned(cover, min_cover)
    /\ pc' = ReturnTo(stack)
    /\ stack' = Pop(stack)
    /\ UNCHANGED << n, V, edges, min_cover, cover, f_sf, ret_cover, fn, arg, result >>

\* lines 132-142: every edge from edge_idx on is covered, record the cover
BacktrackRecord ==
    /\ fn = "compute_f_sf" /\ pc = "enter"
    /\ ~ Pruned(cover, min_cover)
    /\ FirstUncovered(edges, Top.edge_idx, cover) = -1
    /\ min_cover' = IF Cardinality(cover) < Cardinality(min_cover)
                    THEN cover ELSE min_cover
    /\ pc' = ReturnTo(stack)
    /\ stack' = Pop(stack)
    /\ UNCHANGED << n, V, edges, cover, f_sf, ret_cover, fn, arg, result >>

\* lines 132-144: an uncovered edge is found, branch on its vertices
BacktrackBranch ==
    /\ fn = "compute_f_sf" /\ pc = "enter"
    /\ ~ Pruned(cover, min_cover)
    /\ LET i == FirstUncovered(edges, Top.edge_idx, cover)
       IN  /\ i # -1
           /\ stack' = SetTop([edge_idx |-> i,
                               order |-> SortByDeg(edges, edges[i + 1]),
                               pos |-> 1])
    /\ pc' = "loop"
    /\ UNCHANGED << n, V, edges, min_cover, cover, f_sf, ret_cover, fn, arg, result >>

\* lines 144-146: add the next vertex and recurse
LoopCall ==
    /\ fn = "compute_f_sf" /\ pc = "loop"
    /\ Top.pos <= Len(Top.order)
    /\ cover' = cover \cup { Top.order[Top.pos] }
    /\ stack' = Append(stack, [edge_idx |-> ChildIdx(Top.edge_idx),
                               order |-> << >>, pos |-> 0])
    /\ pc' = "enter"
    /\ UNCHANGED << n, V, edges, min_cover, f_sf, ret_cover, fn, arg, result >>

\* line 147: the recursive call returned, take the vertex out again
LoopRemove ==
    /\ fn = "compute_f_sf" /\ pc = "resume"
    /\ cover' = cover \ { Top.order[Top.pos] }
    /\ stack' = SetTop([ Top EXCEPT !.pos = Top.pos + 1 ])
    /\ pc' = "loop"
    /\ UNCHANGED << n, V, edges, min_cover, f_sf, ret_cover, fn, arg, result >>

\* line 144: the loop is exhausted, backtrack returns
LoopExit ==
    /\ fn = "compute_f_sf" /\ pc = "loop"
    /\ Top.pos > Len(Top.order)
    /\ pc' = ReturnTo(stack)
    /\ stack' = Pop(stack)
    /\ UNCHANGED << n, V, edges, min_cover, cover, f_sf, ret_cover, fn, arg, result >>

\* lines 151-152
Finish ==
    /\ fn = "compute_f_sf" /\ pc = "finish"
    /\ f_sf' = Len(V) - Cardinality(min_cover)
    /\ ret_cover' = min_cover
    /\ pc' = "done"
    /\ UNCHANGED << n, V, edges, min_cover, cover, stack, fn, arg, result >>

Next ==
    \/ BuildHypergraph
    \/ ReturnNoEdges
    \/ StartSearch
    \/ BacktrackPrune
    \/ BacktrackRecord
    \/ BacktrackBranch
    \/ LoopCall
    \/ LoopRemove
    \/ LoopExit
    \/ Finish

Spec == Init /\ [][Next]_vars

\* ---------------------------------------------------- calls of pure functions
NoSearchState ==
    /\ n = 0
    /\ V = << >>
    /\ edges = << >>
    /\ min_cover = {}
    /\ cover = {}
    /\ stack = << >>
    /\ f_sf = -1
    /\ ret_cover = {}

UnchangedSearch == UNCHANGED << n, V, edges, min_cover, cover, stack, f_sf, ret_cover >>

InitCore ==
    /\ fn = "core"
    /\ pc = "call"
    /\ arg \in (1..MaxCoreArg) \X (1..MaxCoreArg)
    /\ result = << >>
    /\ NoSearchState

CallCore ==
    /\ fn = "core" /\ pc = "call"
    /\ result' = core(arg[1], arg[2])
    /\ pc' = "done"
    /\ UNCHANGED << fn, arg >>
    /\ UnchangedSearch

NextCore == CallCore

SpecCore == InitCore /\ [][NextCore]_vars

\* the values the sets handed to check_admissible are drawn from
AdmPool == { 1, 2, 3, 5, 6, 10, 14, 15, 126, 210 }

InitAdm ==
    /\ fn = "check_admissible"
    /\ pc = "call"
    /\ arg \in { A \in SUBSET AdmPool : Cardinality(A) <= MaxSetSize }
    /\ result = << >>
    /\ NoSearchState

CallCheckAdmissible ==
    /\ fn = "check_admissible" /\ pc = "call"
    /\ result' = check_admissible(arg)
    /\ pc' = "done"
    /\ UNCHANGED << fn, arg >>
    /\ UnchangedSearch

NextAdm == CallCheckAdmissible

SpecAdm == InitAdm /\ [][NextAdm]_vars

\* the kernel set and the bound of the call in verify_theorem_3
K_set == { 3, 5, 14, 210 }

InitFix ==
    /\ fn = "check_fixing_opportunity"
    /\ pc = "call"
    /\ \/ arg \in (1..MaxFixN) \X { K \in SUBSET is_sf(MaxKernel) : Cardinality(K) = 4 }
       \/ arg = << 210, K_set >>
    /\ result = << >>
    /\ NoSearchState

CallCheckFixing ==
    /\ fn = "check_fixing_opportunity" /\ pc = "call"
    /\ result' = check_fixing_opportunity(arg[1], arg[2])
    /\ pc' = "done"
    /\ UNCHANGED << fn, arg >>
    /\ UnchangedSearch

NextFix == CallCheckFixing

SpecFix == InitFix /\ [][NextFix]_vars

\* ------------------------------------------------------------- properties
\* x has no square divisor greater than 1
IsSquareFree(x) == \A d \in 2..x : x % (d * d) # 0

SquareFreeUpTo(m) == { x \in 1..m : IsSquareFree(x) }

\* m is the square of an integer, for 0 < m < (bound + 1)^2
IsPerfectSquareBelow(m, bound) == \E r \in 1..bound : r * r = m

Hits(e, C) == \E i \in 1..Len(e) : e[i] \in C

Searching == pc \in { "enter", "loop", "resume", "finish" }

\* C1: the result of compute_f_sf(n) is sound: the cover is a set of
\* square-free integers of [1, n], every returned edge has a vertex in the
\* cover, f_sf = |sieve_square_free(n)| - |cover| and 0 <= f_sf <= |sieve|.
C1_Sound ==
    pc = "done" =>
        /\ ret_cover \subseteq SquareFreeUpTo(n)
        /\ \A i \in 1..Len(edges) : Hits(edges[i], ret_cover)
        /\ f_sf = Len(sieve_square_free(n)) - Cardinality(ret_cover)
        /\ 0 <= f_sf
        /\ f_sf <= Len(sieve_square_free(n))

C1_Witness ==
    /\ pc = "done"
    /\ edges # << >>
    /\ Cardinality(ret_cover) = 2

\* C2: the returned cover has minimum cardinality: no smaller subset of the
\* vertex set has a vertex in every returned edge.
C2_Minimum ==
    pc = "done" =>
        \A C \in SUBSET Range(V) :
            Cardinality(C) < Cardinality(ret_cover) =>
                \E i \in 1..Len(edges) : ~ Hits(edges[i], C)

C2_Witness ==
    /\ pc = "done"
    /\ Cardinality(ret_cover) = 2
    /\ Cardinality(Range(edges)) >= 4

\* C3: f_sf is the largest size of a subset of the square-free integers of
\* [1, n] that check_admissible accepts: the complement of the returned cover
\* is accepted and has f_sf elements, and no larger subset is accepted.
C3_MaxAdmissible ==
    pc = "done" =>
        /\ check_admissible(SquareFreeUpTo(n) \ ret_cover)
        /\ Cardinality(SquareFreeUpTo(n) \ ret_cover) = f_sf
        /\ \A A \in SUBSET SquareFreeUpTo(n) :
               Cardinality(A) > f_sf => ~ check_admissible(A)

C3_Witness ==
    /\ pc = "done"
    /\ f_sf = Len(V) - 2
    /\ check_admissible(Range(V) \ ret_cover)

\* C4: the tuples in the edge list are exactly the ascending quadruples
\* a < b < c < d of square-free integers of [1, n] whose product is a perfect
\* square and for which a*d # b*c.
C4_EdgesExact ==
    pc = "done" =>
        LET S == SquareFreeUpTo(n)
        IN  /\ \A i \in 1..Len(edges) :
                 LET e == edges[i]
                 IN  /\ Len(e) = 4
                     /\ Range(e) \subseteq S
                     /\ e[1] < e[2] /\ e[2] < e[3] /\ e[3] < e[4]
                     /\ IsPerfectSquareBelow(e[1] * e[2] * e[3] * e[4], n * n)
                     /\ e[1] * e[4] # e[2] * e[3]
            /\ \A a \in S : \A b \in { x \in S : x > a } :
                 \A c \in { x \in S : x > b } : \A d \in { x \in S : x > c } :
                    ( /\ IsPerfectSquareBelow(a * b * c * d, n * n)
                      /\ a * d # b * c )
                    => << a, b, c, d >> \in Range(edges)

C4_Witness ==
    /\ pc = "done"
    /\ << 2, 3, 5, 30 >> \in Range(edges)
    /\ << 1, 2, 3, 6 >> \notin Range(edges)

\* C5 as stated: the returned edge list has no two entries with the same
\* four vertex values.
C5_NoDuplicates ==
    pc = "done" =>
        \A i \in 1..Len(edges) : \A j \in 1..Len(edges) :
            i # j => Range(edges[i]) # Range(edges[j])

\* C5 amended: the edge list is not deduplicated across core buckets; every
\* tuple in it occurs exactly three times, once for each way of splitting
\* its four values into two pairs of equal core.
C5_ThreeCopies ==
    pc = "done" =>
        \A i \in 1..Len(edges) :
            Cardinality({ j \in 1..Len(edges) : edges[j] = edges[i] }) = 3

C5_Witness ==
    /\ pc = "done"
    /\ Len(edges) = 12
    /\ Cardinality(Range(edges)) = 4

\* the two sets of verify_theorem_3
A_set == { 3, 5, 126, 210 }

\* C6 as stated: check_admissible returns false for {3, 5, 126, 210} and for
\* {3, 5, 14, 210}.
C6_BothRejected ==
    (fn = "check_admissible" /\ pc = "done" /\ arg \in { A_set, K_set })
        => result = FALSE

\* C6 amended: check_admissible({3, 5, 126, 210}) is true (the product is the
\* perfect square 630^2 and a*d = b*c = 630), and
\* check_admissible({3, 5, 14, 210}) is false (the product is the perfect
\* square 210^2 and a*d = 630 differs from b*c = 70).
C6_Theorem3Sets ==
    (fn = "check_admissible" /\ pc = "done") =>
        /\ arg = A_set =>
             /\ result = TRUE
             /\ 3 * 5 * 126 * 210 = 630 * 630
             /\ 3 * 210 = 5 * 126
        /\ arg = K_set =>
             /\ result = FALSE
             /\ 3 * 5 * 14 * 210 = 210 * 210
             /\ 3 * 210 # 5 * 14

C6_Witness ==
    /\ fn = "check_admissible" /\ pc = "done"
    /\ arg = A_set
    /\ result = TRUE

\* C7 as stated: core(a, a) = a for every square-free a > 0.
C7_CoreSelfIsArg ==
    (fn = "core" /\ pc = "done" /\ arg[1] = arg[2] /\ IsSquareFree(arg[1]))
        => result = arg[1]

\* C7 amended: core(a, a) = 1 for every square-free a > 0.
C7_CoreSelfIsOne ==
    (fn = "core" /\ pc = "done" /\ arg[1] = arg[2] /\ IsSquareFree(arg[1]))
        => result = 1

C7_Witness ==
    /\ fn = "core" /\ pc = "done"
    /\ arg = << 6, 6 >>
    /\ result = 1

\* C8: a fix reported by check_fixing_opportunity(n, K) is accepted by
\* check_admissible, has every element at most n and differs from K; the call
\* check_fixing_opportunity(210, {3, 5, 14, 210}) reports such a fix.
C8_FixAdmissible ==
    (fn = "check_fixing_opportunity" /\ pc = "done") =>
        /\ result[1] =>
             /\ check_admissible(Range(result[2]))
             /\ \A i \in 1..Len(result[2]) : result[2][i] <= arg[1]
             /\ Len(result[2]) = 4
             /\ Range(result[2]) # arg[2]
        /\ arg = << 210, K_set >> => result[1]

C8_Witness ==
    /\ fn = "check_fixing_opportunity" /\ pc = "done"
    /\ arg = << 210, K_set >>
    /\ result[1]
    /\ check_admissible(Range(result[2]))

\* C9: for 1 <= n <= 10 the built hypergraph has no edge, and whenever the
\* edge list is empty compute_f_sf returns |sieve_square_free(n)|, an empty
\* edge list and an empty cover, and the search is never entered.
C9_NoEdges ==
    /\ (pc # "build" /\ n <= 10) => edges = << >>
    /\ (pc = "done" /\ edges = << >>) =>
          /\ f_sf = Len(sieve_square_free(n))
          /\ ret_cover = {}
    /\ (pc # "build" /\ edges = << >>) =>
          /\ ~ Searching
          /\ min_cover = {}
          /\ stack = << >>

C9_Witness ==
    /\ pc = "done"
    /\ n = 10
    /\ edges = << >>
    /\ f_sf = 7

\* C10: at every entry of backtrack(edge_idx, cover) each edge with index
\* below edge_idx has a vertex in the partial cover; the running best cover
\* has a vertex in every edge; its size never increases during the search.
C10_SearchInvariant ==
    /\ [](pc = "enter" =>
            \A i \in 0..(Top.edge_idx - 1) : Hits(edges[i + 1], cover))
    /\ [](Searching => \A i \in 1..Len(edges) : Hits(edges[i], min_cover))
    /\ [][Searching => Cardinality(min_cover') <= Cardinality(min_cover)]_vars

C10_Witness ==
    /\ pc = "enter"
    /\ Top.edge_idx >= 2
    /\ Cardinality(cover) = 2
    /\ Cardinality(min_cover) < Len(V)

====
